---- MODULE Spec2Model ----
(***************************************************************************)
(* NAT-PMP packet shell codec (automap/src/protocols/pmp/pmp_packet.rs).   *)
(*                                                                         *)
(* The codec is a set of pure functions over caller-owned byte buffers.    *)
(* The model is a caller that, from an idle state, makes one call          *)
(* (Opcode::from, Opcode::code, PmpPacket::try_from, PmpPacket::marshal),  *)
(* optionally feeds the bytes a marshal wrote back into try_from or the    *)
(* packet a try_from returned back into marshal, and then drops the        *)
(* results.  Every call records its arguments in `call`                    *)
(* and everything observable about its execution in `ret`: the returned    *)
(* value, the buffer indices it read or wrote, whether the opcode's        *)
(* payload parser was entered, and whether the call panicked.              *)
(*                                                                         *)
(* Bytes are 0..255, buffers are sequences of bytes (index i of the Rust   *)
(* slice is element i + 1 of the sequence), Option<T> is a sequence of     *)
(* length 0 (None) or 1 (Some).                                            *)
(***************************************************************************)
EXTENDS Integers, Sequences, FiniteSets, TLC

VARIABLES call, ret

vars == <<call, ret>>

-----------------------------------------------------------------------------
(* Bounds and sampled inputs *)

\* Longest buffer handed to try_from or marshal (a Get response takes 12).
MaxLen == 12

Byte == 0..255

\* Version bytes the caller uses.
Versions == {0, 19}

\* Result-code byte pairs placed at offsets 2 and 3 of a parsed buffer.
ResultCodeBytes == {<<0, 0>>, <<165, 90>>}

\* Payload byte patterns: byte i of the tail is (seed + i * step) % 256.
TailPatterns == {<<0, 0>>, <<1, 17>>}

\* Result codes and addresses of the packets the caller marshals.
ResultCodes == {0, 48042}
Addresses == {<<4, 3, 2, 1>>}

\* Epochs 1234 and 0x01020304, each as <<high 16 bits, low 16 bits>>.
Epochs == {<<0, 1234>>, <<258, 772>>}

-----------------------------------------------------------------------------
(* Option<T> *)

None == <<>>
Some(v) == <<v>>
is_some(o) == Len(o) = 1
unwrap_or(o, d) == IF Len(o) = 1 THEN o[1] ELSE d

-----------------------------------------------------------------------------
(* u8 bit operators *)

RECURSIVE BitAnd(_, _)
BitAnd(a, b) ==
    IF a = 0 \/ b = 0 THEN 0
    ELSE (a % 2) * (b % 2) + 2 * BitAnd(a \div 2, b \div 2)

RECURSIVE BitOr(_, _)
BitOr(a, b) ==
    IF a = 0 THEN b
    ELSE IF b = 0 THEN a
    ELSE (IF a % 2 = 1 \/ b % 2 = 1 THEN 1 ELSE 0) + 2 * BitOr(a \div 2, b \div 2)

-----------------------------------------------------------------------------
(* Slices.  An index at or beyond the slice length is a panic in Rust; the *)
(* model reads 0 there, drops the write, and the caller of these operators *)
(* reports the panic from the recorded index sets.                         *)

ByteAt(buf, i) == IF i < Len(buf) THEN buf[i + 1] ELSE 0

SetByte(buf, i, v) == IF i < Len(buf) THEN [buf EXCEPT ![i + 1] = v] ELSE buf

\* &buf[position..]
SliceFrom(buf, position) ==
    IF position >= Len(buf) THEN <<>> ELSE SubSeq(buf, position + 1, Len(buf))

\* The first n elements of buf.
Take(buf, n) == IF n >= Len(buf) THEN buf ELSE SubSeq(buf, 1, n)

-----------------------------------------------------------------------------
(* protocols::utils (byte primitives, Direction, UnrecognizedData) *)

u16_at(buf, offset) == ByteAt(buf, offset) * 256 + ByteAt(buf, offset + 1)

u16_into(buf, offset, value) ==
    SetByte(SetByte(buf, offset, (value \div 256) % 256), offset + 1, value % 256)

\* A u32 is held as its two 16-bit halves <<high, low>>: the value is
\* high * 65536 + low, which is beyond the integers TLC computes with.
u32_at(buf, offset) == <<u16_at(buf, offset), u16_at(buf, offset + 2)>>

u32_into(buf, offset, value) ==
    u16_into(u16_into(buf, offset, value[1]), offset + 2, value[2])

Request == "Request"
Response == "Response"
Direction == {Request, Response}

Direction_from(input) == IF BitAnd(input, 128) > 0 THEN Response ELSE Request

Direction_code(direction) == IF direction = Response THEN 128 ELSE 0

\* Payload values: one record shape for every payload type.
UnrecognizedData_new ==
    [type |-> "UnrecognizedData", epoch_opt |-> None, external_ip_address_opt |-> None]

GetOpcodeData(epoch_opt, external_ip_address_opt) ==
    [type |-> "GetOpcodeData", epoch_opt |-> epoch_opt,
     external_ip_address_opt |-> external_ip_address_opt]

-----------------------------------------------------------------------------
(* Opcode *)

Get == [tag |-> "Get", n |-> 0]
MapUdp == [tag |-> "MapUdp", n |-> 0]
MapTcp == [tag |-> "MapTcp", n |-> 0]
Other(x) == [tag |-> "Other", n |-> x]

\* Every value of the enum: Other carries any u8.
Opcode == {Get, MapUdp, MapTcp} \cup {Other(x) : x \in Byte}

\* Opcode::from masking six bits instead of seven.
Opcode_from_mask6(input) ==
    LET x == BitAnd(input, 63)
    IN  CASE x = 0 -> Get
          [] x = 1 -> MapUdp
          [] x = 2 -> MapTcp
          [] OTHER -> Other(x)

\* Opcode::from without the arm for MapTcp.
Opcode_from_no_MapTcp(input) ==
    LET x == BitAnd(input, 127)
    IN  CASE x = 0 -> Get
          [] x = 1 -> MapUdp
          [] OTHER -> Other(x)

Opcode_from(input) ==
    LET x == BitAnd(input, 127)
    IN  CASE x = 0 -> Get
          [] x = 1 -> MapUdp
          [] x = 2 -> MapTcp
          [] OTHER -> Other(x)

\* Opcode::code without the mask on Other.
Opcode_code_unclamped(self) ==
    CASE self.tag = "Get" -> 0
      [] self.tag = "MapUdp" -> 1
      [] self.tag = "MapTcp" -> 2
      [] OTHER -> self.n

Opcode_code(self) ==
    CASE self.tag = "Get" -> 0
      [] self.tag = "MapUdp" -> 1
      [] self.tag = "MapTcp" -> 2
      [] OTHER -> BitAnd(self.n, 127)

-----------------------------------------------------------------------------
(* Payloads: the OpcodeData capability, UnrecognizedData and GetOpcodeData *)

ShortBuffer == "ShortBuffer"
UnexpectedOpcodeData == "UnexpectedOpcodeData"

\* OpcodeData::len(direction)
OpcodeData_len(data, direction) ==
    IF data.type = "GetOpcodeData" /\ direction = Response THEN 8 ELSE 0

\* GetOpcodeData::new(direction, buf): the payload, or an error, and the
\* indices of buf it read.
GetOpcodeData_new(direction, buf) ==
    IF direction = Request
    THEN [error |-> None, data |-> GetOpcodeData(None, None), reads |-> {}]
    ELSE IF Len(buf) < 8
    THEN [error |-> Some(ShortBuffer), data |-> GetOpcodeData(None, None), reads |-> {}]
    ELSE [error |-> None,
          data  |-> GetOpcodeData(Some(u32_at(buf, 0)),
                       Some(<<ByteAt(buf, 4), ByteAt(buf, 5), ByteAt(buf, 6), ByteAt(buf, 7)>>)),
          reads |-> 0..7]

\* OpcodeData::marshal(direction, buf): the error if any, buf afterwards and
\* the indices of buf it wrote.
OpcodeData_marshal(data, direction, buf) ==
    IF data.type = "UnrecognizedData" \/ direction = Request
    THEN [error |-> None, buffer |-> buf, writes |-> {}]
    ELSE IF Len(buf) < 8
    THEN [error |-> Some(ShortBuffer), buffer |-> buf, writes |-> {}]
    ELSE IF ~is_some(data.epoch_opt) \/ ~is_some(data.external_ip_address_opt)
    THEN [error |-> Some(UnexpectedOpcodeData), buffer |-> buf, writes |-> {}]
    ELSE LET ip == data.external_ip_address_opt[1]
             b0 == u32_into(buf, 0, data.epoch_opt[1])
             b1 == SetByte(SetByte(SetByte(SetByte(b0, 4, ip[1]), 5, ip[2]), 6, ip[3]), 7, ip[4])
         IN  [error |-> None, buffer |-> b1, writes |-> 0..7]

-----------------------------------------------------------------------------
(* Opcode::parse_data *)

\* Opcode::parse_data handing the Get parser Request whatever the header said.
parse_data_as_request(self, direction, buf) ==
    CASE self.tag = "Get" ->
            LET r == GetOpcodeData_new(Request, buf)
            IN  [status |-> IF is_some(r.error) THEN "Err" ELSE "Ok",
                 error |-> r.error, data |-> r.data, reads |-> r.reads]
      [] self.tag \in {"MapUdp", "MapTcp"} ->
            [status |-> "Panic", error |-> None, data |-> UnrecognizedData_new, reads |-> {}]
      [] OTHER ->
            [status |-> "Ok", error |-> None, data |-> UnrecognizedData_new, reads |-> {}]

\* Opcode::parse_data refusing an unknown opcode that is followed by bytes.
parse_data_no_trailing(self, direction, buf) ==
    CASE self.tag = "Get" ->
            LET r == GetOpcodeData_new(direction, buf)
            IN  [status |-> IF is_some(r.error) THEN "Err" ELSE "Ok",
                 error |-> r.error, data |-> r.data, reads |-> r.reads]
      [] self.tag \in {"MapUdp", "MapTcp"} ->
            [status |-> "Panic", error |-> None, data |-> UnrecognizedData_new, reads |-> {}]
      [] OTHER ->
            IF Len(buf) > 0
            THEN [status |-> "Err", error |-> Some(UnexpectedOpcodeData),
                  data |-> UnrecognizedData_new, reads |-> {}]
            ELSE [status |-> "Ok", error |-> None, data |-> UnrecognizedData_new, reads |-> {}]

\* status is "Ok" (data is the payload), "Err" (error is the ParseError) or
\* "Panic" (unimplemented!() unwinds out of the call).
parse_data(self, direction, buf) ==
    CASE self.tag = "Get" ->
            LET r == GetOpcodeData_new(direction, buf)
            IN  [status |-> IF is_some(r.error) THEN "Err" ELSE "Ok",
                 error |-> r.error, data |-> r.data, reads |-> r.reads]
      [] self.tag \in {"MapUdp", "MapTcp"} ->
            [status |-> "Panic", error |-> None, data |-> UnrecognizedData_new, reads |-> {}]
      [] OTHER ->
            [status |-> "Ok", error |-> None, data |-> UnrecognizedData_new, reads |-> {}]

-----------------------------------------------------------------------------
(* PmpPacket *)

PmpPacket(version, direction, opcode, result_code_opt, opcode_data) ==
    [version |-> version, direction |-> direction, opcode |-> opcode,
     result_code_opt |-> result_code_opt, opcode_data |-> opcode_data]

\* The value try_from starts from.
Placeholder == PmpPacket(0, Request, Other(0), None, UnrecognizedData_new)

\* The match on result.direction in try_from, with no length check for a
\* response.
ResultCodeAndPosition_unchecked(buffer, direction) ==
    IF direction = Request
    THEN [error |-> None, result_code_opt |-> None, position |-> 2, reads |-> {}]
    ELSE [error |-> None, result_code_opt |-> Some(u16_at(buffer, 2)),
          position |-> 4, reads |-> {2, 3}]

\* The match on result.direction in try_from, naming a response's result
\* code for a request too.
ResultCodeAndPosition_always(buffer, direction) ==
    IF Len(buffer) < 4
    THEN IF direction = Request
         THEN [error |-> None, result_code_opt |-> None, position |-> 2, reads |-> {}]
         ELSE [error |-> Some(ShortBuffer), result_code_opt |-> None, position |-> 4, reads |-> {}]
    ELSE [error |-> None, result_code_opt |-> Some(u16_at(buffer, 2)),
          position |-> IF direction = Request THEN 2 ELSE 4, reads |-> {2, 3}]

\* The match on result.direction in try_from: the result code, the payload
\* position, and the indices read.
ResultCodeAndPosition(buffer, direction) ==
    IF direction = Request
    THEN [error |-> None, result_code_opt |-> None, position |-> 2, reads |-> {}]
    ELSE IF Len(buffer) < 4
    THEN [error |-> Some(ShortBuffer), result_code_opt |-> None, position |-> 4, reads |-> {}]
    ELSE [error |-> None, result_code_opt |-> Some(u16_at(buffer, 2)),
          position |-> 4, reads |-> {2, 3}]

\* What a try_from call that stops with a ParseError reports.
ParseFailure(error, reads, dispatched, len) ==
    [status |-> IF \E i \in reads : i >= len THEN "Panic" ELSE "Err",
     error |-> Some(error), packet_opt |-> None, reads |-> reads,
     dispatched |-> dispatched]

\* The first length check of try_from, letting a one-byte buffer through.
header_is_short_by_one(buffer) == Len(buffer) < 1

\* The first length check of try_from.
header_is_short(buffer) == Len(buffer) < 2

\* The header assignments of try_from, leaving the version it started from.
ParseHeader_keeps_version(buffer) ==
    [Placeholder EXCEPT !.direction = Direction_from(ByteAt(buffer, 1)),
                        !.opcode = Opcode_from(ByteAt(buffer, 1))]

\* The header assignments of try_from: version, direction and opcode from the
\* first two bytes, over the value the parser starts from.
ParseHeader(buffer) ==
    [Placeholder EXCEPT !.version = ByteAt(buffer, 0),
                        !.direction = Direction_from(ByteAt(buffer, 1)),
                        !.opcode = Opcode_from(ByteAt(buffer, 1))]

\* PmpPacket::try_from(buffer).  reads: the indices of buffer the call read;
\* dispatched: whether Opcode::parse_data was entered; status "Panic" when
\* parse_data panicked or an index at or beyond buffer.len() was used.
try_from(buffer) ==
    IF header_is_short(buffer)
    THEN ParseFailure(ShortBuffer, {}, FALSE, Len(buffer))
    ELSE
    LET header == ParseHeader(buffer)
        m == ResultCodeAndPosition(buffer, header.direction)
    IN  IF is_some(m.error)
        THEN ParseFailure(m.error[1], {0, 1} \cup m.reads, FALSE, Len(buffer))
        ELSE
        LET d == parse_data(header.opcode, header.direction, SliceFrom(buffer, m.position))
            result == [header EXCEPT !.result_code_opt = m.result_code_opt,
                                     !.opcode_data = d.data]
            reads == {0, 1} \cup m.reads \cup {m.position + i : i \in d.reads}
            panic == d.status = "Panic" \/ \E i \in reads : i >= Len(buffer)
        IN  IF d.status = "Err"
            THEN ParseFailure(d.error[1], reads, TRUE, Len(buffer))
            ELSE [status |-> IF panic THEN "Panic" ELSE "Ok",
                  error |-> None,
                  packet_opt |-> IF panic THEN None ELSE Some(result),
                  reads |-> reads,
                  dispatched |-> TRUE]

\* header_len in marshal, with the request's length for a response too.
header_len_short(direction) == 2

\* header_len in marshal
header_len(direction) == IF direction = Request THEN 2 ELSE 4

\* required_len in marshal, leaving the payload out.
required_len_header_only(self) == header_len(self.direction)

\* required_len in marshal
required_len(self) == header_len(self.direction) + OpcodeData_len(self.opcode_data, self.direction)

\* The second header byte marshal writes, without the direction bit.
second_byte_no_direction(self) == Opcode_code(self.opcode)

\* The second header byte marshal writes.
second_byte(self) == BitOr(Direction_code(self.direction), Opcode_code(self.opcode))

\* The length check of marshal, refusing a buffer of exactly the required
\* length too.
buffer_is_short_or_exact(self, buffer) == Len(buffer) <= required_len(self)

\* The length check of marshal, made against the header length alone.
buffer_is_short_of_header(self, buffer) == Len(buffer) < header_len(self.direction)

\* The length check of marshal.
buffer_is_short(self, buffer) == Len(buffer) < required_len(self)

\* PmpPacket::marshal(buffer).  buffer: the buffer after the call; writes: the
\* indices written; count_opt: the returned byte count; packet: the packet
\* after the call (marshal borrows it immutably).
marshal(self, buffer) ==
    IF buffer_is_short(self, buffer)
    THEN [status |-> "Err", error |-> Some(ShortBuffer), count_opt |-> None,
          buffer |-> buffer, writes |-> {}, packet |-> self]
    ELSE
    LET b0 == SetByte(buffer, 0, self.version)
        b1 == SetByte(b0, 1, second_byte(self))
        isResponse == self.direction = Response
        b2 == IF isResponse THEN u16_into(b1, 2, unwrap_or(self.result_code_opt, 0)) ELSE b1
        position == IF isResponse THEN 4 ELSE 2
        d == OpcodeData_marshal(self.opcode_data, self.direction, SliceFrom(b2, position))
        b3 == Take(b2, position) \o d.buffer
        writes == {0, 1} \cup (IF isResponse THEN {2, 3} ELSE {})
                         \cup {position + i : i \in d.writes}
        panic == \E i \in writes : i >= Len(buffer)
    IN  [status |-> IF panic THEN "Panic" ELSE IF is_some(d.error) THEN "Err" ELSE "Ok",
         error |-> IF panic THEN None ELSE d.error,
         count_opt |-> IF panic \/ is_some(d.error) THEN None ELSE Some(required_len(self)),
         buffer |-> b3,
         writes |-> writes,
         packet |-> self]

-----------------------------------------------------------------------------
(* The caller *)

\* Buffers handed to try_from: a header, a result code and a patterned tail,
\* cut to every length up to MaxLen.
PatternedTail(pattern, n) == [i \in 1..n |-> (pattern[1] + (i - 1) * pattern[2]) % 256]

InputBuffer(version, second, rc, pattern, len) ==
    Take(<<version, second, rc[1], rc[2]>> \o PatternedTail(pattern, MaxLen), len)

\* Buffers handed to marshal: len bytes of prior content, all different from
\* one another.
OutputBuffer(len) == [i \in 1..len |-> 223 + i]

ResultCodeOpts == {None} \cup {Some(rc) : rc \in ResultCodes}

GetPayloads ==
    {GetOpcodeData(None, None)}
        \cup {GetOpcodeData(Some(e), Some(a)) : e \in Epochs, a \in Addresses}
        \cup {GetOpcodeData(Some(e), None) : e \in Epochs}

\* Packets handed to marshal.  The fields are public, so every combination
\* can be built: every opcode with the Unrecognized payload, and the Get
\* payloads under a known, an unimplemented and an unknown opcode.
Packets ==
    {PmpPacket(v, d, o, rc, UnrecognizedData_new) :
        v \in Versions, d \in Direction, o \in Opcode, rc \in ResultCodeOpts}
    \cup
    {PmpPacket(v, d, o, rc, g) :
        v \in Versions, d \in Direction, o \in {Get, MapUdp, Other(85)},
        rc \in ResultCodeOpts, g \in GetPayloads}

Idle == [op |-> "idle"]
NoResult == [status |-> "idle"]

Init == call = Idle /\ ret = NoResult

\* Opcode::from(input), then code() of the result.
CallOpcodeFrom ==
    /\ call = Idle
    /\ \E input \in Byte :
        /\ call' = [op |-> "Opcode::from", input |-> input]
        /\ ret' = [status |-> "Ok", opcode |-> Opcode_from(input),
                   code |-> Opcode_code(Opcode_from(input))]

\* opcode.code(), then Opcode::from of the result.
CallOpcodeCode ==
    /\ call = Idle
    /\ \E opcode \in Opcode :
        /\ call' = [op |-> "Opcode::code", opcode |-> opcode]
        /\ ret' = [status |-> "Ok", code |-> Opcode_code(opcode),
                   opcode |-> Opcode_from(Opcode_code(opcode))]

\* PmpPacket::try_from(buffer)
CallTryFrom ==
    /\ call = Idle
    /\ \E version \in Versions, second \in Byte, rc \in ResultCodeBytes,
          pattern \in TailPatterns, len \in 0..MaxLen :
        LET buffer == InputBuffer(version, second, rc, pattern, len)
        IN  /\ call' = [op |-> "try_from", buffer |-> buffer]
            /\ ret' = try_from(buffer)

\* packet.marshal(&mut buffer)
CallMarshal ==
    /\ call = Idle
    /\ \E packet \in Packets, len \in 0..MaxLen :
        /\ call' = [op |-> "marshal", packet |-> packet, buffer |-> OutputBuffer(len)]
        /\ ret' = marshal(packet, OutputBuffer(len))

\* After a successful marshal: PmpPacket::try_from on the bytes it wrote, or
\* on the whole buffer it was given.
CallTryFromMarshalled ==
    /\ call.op = "marshal"
    /\ ret.status = "Ok"
    /\ \E whole \in BOOLEAN :
        LET buffer == IF whole THEN ret.buffer ELSE Take(ret.buffer, ret.count_opt[1])
        IN  /\ call' = [op |-> "marshal;try_from", packet |-> call.packet,
                        count |-> ret.count_opt[1], buffer |-> buffer]
            /\ ret' = try_from(buffer)

\* After a successful try_from: the packet it returned is marshalled into a
\* buffer as long as the one it was parsed from.
CallMarshalParsed ==
    /\ call.op = "try_from"
    /\ ret.status = "Ok"
    /\ LET packet == ret.packet_opt[1]
           buffer == OutputBuffer(Len(call.buffer))
       IN  /\ call' = [op |-> "try_from;marshal", source |-> call.buffer,
                       packet |-> packet, buffer |-> buffer]
           /\ ret' = marshal(packet, buffer)

\* The caller drops the results.
Return ==
    /\ call # Idle
    /\ call' = Idle
    /\ ret' = NoResult

Next ==
    \/ CallOpcodeFrom
    \/ CallOpcodeCode
    \/ CallTryFrom
    \/ CallMarshal
    \/ CallTryFromMarshalled
    \/ CallMarshalParsed
    \/ Return

Spec == Init /\ [][Next]_vars

-----------------------------------------------------------------------------
(* Properties *)

\* The lengths the packet layout prescribes: a two-byte header, two more
\* bytes of result code in a response, eight bytes of Get response payload.
LayoutHeaderLen(direction) == IF direction = Response THEN 4 ELSE 2

LayoutPayloadLen(data, direction) ==
    IF data.type = "GetOpcodeData" /\ direction = Response THEN 8 ELSE 0

LayoutLen(p) == LayoutHeaderLen(p.direction) + LayoutPayloadLen(p.opcode_data, p.direction)

\* A packet built with a valid (direction, payload) pair: the result code is
\* present exactly in a response, a Get payload has both fields in a response
\* and neither in a request, and the Get payload goes with the Get opcode.
ValidPacket(p) ==
    /\ is_some(p.result_code_opt) <=> p.direction = Response
    /\ p.opcode_data.type = "GetOpcodeData" <=> p.opcode = Get
    /\ p.opcode_data.type = "GetOpcodeData" =>
        /\ is_some(p.opcode_data.epoch_opt) <=> p.direction = Response
        /\ is_some(p.opcode_data.external_ip_address_opt) <=> p.direction = Response

IsParse == call.op \in {"try_from", "marshal;try_from"}

\* C1: every valid packet marshals into every buffer at least as long as its
\* required length, and parsing the bytes written gives back an equal packet.
C1_RoundTrip ==
    /\ (call.op = "marshal" /\ ValidPacket(call.packet)
            /\ Len(call.buffer) >= LayoutLen(call.packet))
        => ret.status = "Ok"
    /\ (call.op = "marshal;try_from" /\ ValidPacket(call.packet)
            /\ Len(call.buffer) = call.count)
        => (ret.status = "Ok" /\ ret.packet_opt = Some(call.packet))

\* C2: try_from returns a packet or a ParseError for every buffer; it never
\* panics, in particular not for the opcodes MapUdp and MapTcp.
C2_DecodeNeverPanics == IsParse => ret.status \in {"Ok", "Err"}

\* C3: try_from reads no index at or beyond buffer.len(); marshal writes no
\* index at or beyond the required length (nor beyond the buffer), so the
\* bytes from there on keep their values and the buffer keeps its length.
C3_BoundsSafety ==
    /\ IsParse => \A i \in ret.reads : i < Len(call.buffer)
    /\ call.op = "marshal" =>
        /\ Len(ret.buffer) = Len(call.buffer)
        /\ \A i \in ret.writes : i < LayoutLen(call.packet) /\ i < Len(call.buffer)
        /\ \A i \in 0..(Len(call.buffer) - 1) :
            i >= LayoutLen(call.packet) => ByteAt(ret.buffer, i) = ByteAt(call.buffer, i)

\* C3 witness: a marshal into a buffer longer than required wrote its header
\* and result code and stopped there.
C3_Witness ==
    /\ call.op = "marshal"
    /\ ret.status = "Ok"
    /\ call.packet.direction = Response
    /\ Len(call.buffer) > LayoutLen(call.packet)
    /\ ret.writes = {0, 1, 2, 3}

\* C4: a successful marshal returns the header length of the packet's
\* direction plus its payload's length for that direction: 2 for every
\* request, 4 for a response with no payload bytes, 12 for a Get response.
C4_LengthAgreement ==
    (call.op = "marshal" /\ ret.status = "Ok") =>
        /\ ret.count_opt = Some(LayoutLen(call.packet))
        /\ call.packet.direction = Request => ret.count_opt = Some(2)
        /\ (call.packet.direction = Response
                /\ call.packet.opcode_data.type = "UnrecognizedData")
            => ret.count_opt = Some(4)
        /\ (call.packet.direction = Response
                /\ call.packet.opcode_data.type = "GetOpcodeData")
            => ret.count_opt = Some(12)

\* C4 witness: a Get response was marshalled.
C4_Witness ==
    /\ call.op = "marshal"
    /\ ret.status = "Ok"
    /\ call.packet.direction = Response
    /\ call.packet.opcode = Get
    /\ call.packet.opcode_data.type = "GetOpcodeData"
    /\ ret.count_opt = Some(12)

\* C5 as stated: Opcode::from(op.code()) = op for Get, MapUdp, MapTcp and
\* Other(n) for every n in 0..=127.
C5_OpcodeRoundTrip_Original ==
    (call.op = "Opcode::code"
        /\ (call.opcode.tag = "Other" => call.opcode.n <= 127))
    => ret.opcode = call.opcode

\* C5 amended: Opcode::from(op.code()) = op for Get, MapUdp, MapTcp and
\* Other(n) for every n in 3..=127.
C5_OpcodeRoundTrip ==
    (call.op = "Opcode::code"
        /\ (call.opcode.tag = "Other" => call.opcode.n \in 3..127))
    => ret.opcode = call.opcode

\* C5 witness: Other(127) went through code() and from().
C5_Witness ==
    /\ call.op = "Opcode::code"
    /\ call.opcode = Other(127)
    /\ ret.code = 127
    /\ ret.opcode = Other(127)

\* C6: Opcode::from(b).code() = b & 0x7F for every byte b, the opcode is the
\* one of the low seven bits whatever bit 7 is, and code() is never above
\* 127 (Other(255).code() = 127).
C6_OpcodeClamp ==
    /\ call.op = "Opcode::from" =>
        /\ ret.code = call.input % 128
        /\ ret.opcode = (CASE call.input % 128 = 0 -> Get
                           [] call.input % 128 = 1 -> MapUdp
                           [] call.input % 128 = 2 -> MapTcp
                           [] OTHER -> Other(call.input % 128))
    /\ call.op = "Opcode::code" =>
        /\ ret.code <= 127
        /\ call.opcode.tag = "Other" => ret.code = call.opcode.n % 128

\* C6 witness: byte 255 became Other(127), whose code is 127.
C6_Witness ==
    /\ call.op = "Opcode::from"
    /\ call.input = 255
    /\ ret.opcode = Other(127)
    /\ ret.code = 127

\* The case of C7: a packet with opcode Other(n), n in codes, and the
\* Unrecognized payload (a result code exactly in a response) was marshalled
\* and the outcome parsed.
UnknownOpcodeReparsed(codes) ==
    /\ call.op = "marshal;try_from"
    /\ call.packet.opcode.tag = "Other"
    /\ call.packet.opcode.n \in codes
    /\ call.packet.opcode_data = UnrecognizedData_new
    /\ is_some(call.packet.result_code_opt) <=> call.packet.direction = Response

\* What C7 promises of that case: the payload took no bytes, the parse
\* succeeds with the same header fields and an Unrecognized payload, bytes
\* after the header or not.
HeaderRoundTrips ==
    /\ call.count = LayoutHeaderLen(call.packet.direction)
    /\ ret.status = "Ok"
    /\ ret.packet_opt[1].version = call.packet.version
    /\ ret.packet_opt[1].direction = call.packet.direction
    /\ ret.packet_opt[1].opcode = call.packet.opcode
    /\ ret.packet_opt[1].result_code_opt = call.packet.result_code_opt
    /\ ret.packet_opt[1].opcode_data = UnrecognizedData_new

\* C7 as stated: header fields round-trip for Other(n) with n <= 127.
C7_UnknownOpcodeLossless_Original == UnknownOpcodeReparsed(0..127) => HeaderRoundTrips

\* C7 amended: header fields round-trip for Other(n) with 3 <= n <= 127.
C7_UnknownOpcodeLossless == UnknownOpcodeReparsed(3..127) => HeaderRoundTrips

\* C7 witness: an unknown response came back from a buffer that holds bytes
\* after its header.
C7_Witness ==
    /\ UnknownOpcodeReparsed({85})
    /\ call.packet.direction = Response
    /\ call.packet.result_code_opt = Some(48042)
    /\ Len(call.buffer) > call.count
    /\ ret.status = "Ok"

\* C8: a packet try_from returns has a result code exactly when its direction
\* is Response, and the code is then buf[2] * 256 + buf[3].
C8_ResultCodeIffResponse ==
    (IsParse /\ ret.status = "Ok") =>
        LET p == ret.packet_opt[1]
        IN  /\ is_some(p.result_code_opt) <=> p.direction = Response
            /\ is_some(p.result_code_opt) =>
                p.result_code_opt[1] = call.buffer[3] * 256 + call.buffer[4]

\* C8 witness: [0x13, 0xD5, 0xA5, 0x5A] parsed to result code 0xA55A.
C8_Witness ==
    /\ call.op = "try_from"
    /\ call.buffer = <<19, 213, 165, 90>>
    /\ ret.status = "Ok"
    /\ ret.packet_opt[1].result_code_opt = Some(42330)

\* C9: try_from fails with ShortBuffer, returning no packet, for every buffer
\* of length 0 or 1.
C9_ShortHeader ==
    (IsParse /\ Len(call.buffer) < 2) =>
        /\ ret.status = "Err"
        /\ ret.error = Some(ShortBuffer)
        /\ ret.packet_opt = None

\* C9 witness: the one-byte buffer [0x00] was refused.
C9_Witness ==
    /\ call.op = "try_from"
    /\ call.buffer = <<0>>
    /\ ret.error = Some(ShortBuffer)

\* C10: try_from fails with ShortBuffer for every buffer of length 2 or 3
\* whose second byte has bit 7 set, whatever the opcode, and does so before
\* the opcode's payload parser is entered.
C10_ShortResponse ==
    (IsParse /\ Len(call.buffer) \in {2, 3} /\ call.buffer[2] >= 128) =>
        /\ ret.status = "Err"
        /\ ret.error = Some(ShortBuffer)
        /\ ret.packet_opt = None
        /\ ~ret.dispatched

\* C10 witness: [0x00, 0x81, 0x00], a short MapUdp response, was refused.
C10_Witness ==
    /\ call.op = "try_from"
    /\ call.buffer = <<0, 129, 0>>
    /\ ret.error = Some(ShortBuffer)
    /\ ~ret.dispatched

\* C11: marshal returns MarshalError::ShortBuffer whenever the buffer is
\* shorter than header length plus payload length, and never returns it for
\* a buffer of that length or longer.
C11_ShortBufferOnMarshal ==
    call.op = "marshal" =>
        /\ Len(call.buffer) < LayoutLen(call.packet) =>
            (ret.status = "Err" /\ ret.error = Some(ShortBuffer) /\ ret.count_opt = None)
        /\ Len(call.buffer) >= LayoutLen(call.packet) => ret.error # Some(ShortBuffer)

\* C11 witness: a Get response was refused an 11-byte buffer.
C11_Witness ==
    /\ call.op = "marshal"
    /\ call.packet.direction = Response
    /\ call.packet.opcode = Get
    /\ call.packet.opcode_data.type = "GetOpcodeData"
    /\ Len(call.buffer) = 11
    /\ ret.error = Some(ShortBuffer)

\* C12: a buffer whose opcode bits are none of 0, 1, 2 and which holds at
\* least the header of its direction (2 bytes, 4 with bit 7 set) parses to a
\* packet with the Unrecognized payload, whatever follows the header.
C12_UnknownOpcodeParses ==
    (IsParse /\ Len(call.buffer) >= 2
        /\ call.buffer[2] % 128 \notin {0, 1, 2}
        /\ Len(call.buffer) >= (IF call.buffer[2] >= 128 THEN 4 ELSE 2))
    => /\ ret.status = "Ok"
       /\ ret.packet_opt[1].opcode = Other(call.buffer[2] % 128)
       /\ ret.packet_opt[1].opcode_data = UnrecognizedData_new

\* C12 witness: an unknown request followed by ten more bytes was parsed.
C12_Witness ==
    /\ call.op = "try_from"
    /\ Len(call.buffer) = 12
    /\ call.buffer[2] = 85
    /\ call.buffer[5] # 0
    /\ ret.status = "Ok"
    /\ ret.packet_opt[1].opcode_data = UnrecognizedData_new

\* The 7-bit wire code of an opcode: 0, 1, 2 for Get, MapUdp, MapTcp and the
\* low seven bits of n for Other(n).
WireCode(opcode) ==
    CASE opcode.tag = "Get" -> 0
      [] opcode.tag = "MapUdp" -> 1
      [] opcode.tag = "MapTcp" -> 2
      [] OTHER -> opcode.n % 128

\* C13: after a successful marshal buf[0] is the version and buf[1] is 0x80
\* for a response (0x00 for a request) or-ed with the opcode's 7-bit code; a
\* response has its result code, or 0 when it has none, big-endian in
\* buf[2..4]; a request has no result-code bytes written: nothing is written
\* from offset 2 on, where its (empty) payload starts.
C13_HeaderLayoutOnEncode ==
    (call.op = "marshal" /\ ret.status = "Ok") =>
        LET p == call.packet
            rc == IF p.result_code_opt = None THEN 0 ELSE p.result_code_opt[1]
        IN  /\ ret.buffer[1] = p.version
            /\ ret.buffer[2] = (IF p.direction = Response THEN 128 ELSE 0) + WireCode(p.opcode)
            /\ p.direction = Response =>
                /\ ret.buffer[3] = rc \div 256
                /\ ret.buffer[4] = rc % 256
                /\ {0, 1, 2, 3} \subseteq ret.writes
            /\ p.direction = Request =>
                /\ ret.writes = {0, 1}
                /\ SliceFrom(ret.buffer, 2) = SliceFrom(call.buffer, 2)

\* C13 witness: {version 0x13, Response, Other(0x55), Some(0xBBAA)} came out
\* as [0x13, 0xD5, 0xBB, 0xAA].
C13_Witness ==
    /\ call.op = "marshal"
    /\ ret.status = "Ok"
    /\ call.packet.opcode = Other(85)
    /\ call.packet.result_code_opt = Some(48042)
    /\ ret.buffer = <<19, 213, 187, 170>>

\* C14: a packet try_from returns has version buf[0], direction Response
\* exactly when bit 7 of buf[1] is set, and the opcode of the low seven bits
\* of buf[1]; nothing of the value the parser starts from (version 0,
\* Request, Other(0)) is left unless the bytes say so.
C14_HeaderFieldsOnDecode ==
    (IsParse /\ ret.status = "Ok") =>
        LET p == ret.packet_opt[1]
            low == call.buffer[2] % 128
        IN  /\ p.version = call.buffer[1]
            /\ p.direction = Response <=> call.buffer[2] >= 128
            /\ p.direction = Request <=> call.buffer[2] < 128
            /\ p.opcode = (CASE low = 0 -> Get
                             [] low = 1 -> MapUdp
                             [] low = 2 -> MapTcp
                             [] OTHER -> Other(low))
            /\ p.opcode # Other(0)

\* C14 witness: [0x13, 0xD5, ...] parsed to version 0x13, Response,
\* Other(0x55), none of them the value the parser started from.
C14_Witness ==
    /\ call.op = "try_from"
    /\ ret.status = "Ok"
    /\ call.buffer[1] = 19
    /\ call.buffer[2] = 213
    /\ ret.packet_opt[1].version = 19
    /\ ret.packet_opt[1].direction = Response
    /\ ret.packet_opt[1].opcode = Other(85)

\* C16: a buffer with opcode bits 0 that try_from parses gives a Get payload
\* with neither field when bit 7 of buf[1] is clear (whatever follows the
\* header) and with both fields when it is set: the payload parser is handed
\* the direction of the header.
C16_GetPayloadFollowsDirection ==
    (IsParse /\ ret.status = "Ok" /\ call.buffer[2] % 128 = 0) =>
        LET p == ret.packet_opt[1]
        IN  /\ p.opcode_data.type = "GetOpcodeData"
            /\ call.buffer[2] < 128 =>
                /\ p.direction = Request
                /\ p.opcode_data.epoch_opt = None
                /\ p.opcode_data.external_ip_address_opt = None
            /\ call.buffer[2] >= 128 =>
                /\ p.direction = Response
                /\ is_some(p.opcode_data.epoch_opt)
                /\ is_some(p.opcode_data.external_ip_address_opt)

\* C16 witness: a 12-byte Get response was parsed into both fields.
C16_Witness ==
    /\ call.op = "try_from"
    /\ ret.status = "Ok"
    /\ call.buffer[2] = 128
    /\ Len(call.buffer) = 12
    /\ ret.packet_opt[1].opcode_data.epoch_opt = Some(<<256 + 18, 35 * 256 + 52>>)
    /\ ret.packet_opt[1].opcode_data.external_ip_address_opt = Some(<<69, 86, 103, 120>>)

\* C17: a successful marshal of any packet, its opcode Other(n) with n in
\* 128..=255 included, writes a second header byte whose bit 7 is set exactly
\* when the packet's direction is Response.
C17_AnyOpcodeEncodable ==
    (call.op = "marshal" /\ ret.status = "Ok") =>
        (ret.buffer[2] >= 128 <=> call.packet.direction = Response)

\* C17 witness: a request with opcode Other(200) went out with bit 7 clear.
C17_Witness ==
    /\ call.op = "marshal"
    /\ ret.status = "Ok"
    /\ call.packet.direction = Request
    /\ call.packet.opcode = Other(200)
    /\ ret.buffer[2] = 72

\* C18: when marshal refuses a buffer shorter than header length plus payload
\* length, it has written nothing: every byte of the buffer is as it was
\* before the call, and so is the packet.
C18_RefusedMarshalWritesNothing ==
    (call.op = "marshal" /\ Len(call.buffer) < LayoutLen(call.packet)) =>
        /\ ret.status = "Err"
        /\ ret.buffer = call.buffer
        /\ ret.writes = {}
        /\ ret.packet = call.packet

\* C18 witness: a Get response refused an 11-byte buffer, which has room for
\* the header, and left it as it was.
C18_Witness ==
    /\ call.op = "marshal"
    /\ call.packet.direction = Response
    /\ call.packet.opcode_data.type = "GetOpcodeData"
    /\ Len(call.buffer) = 11
    /\ ret.error = Some(ShortBuffer)
    /\ ret.buffer = call.buffer

\* C19: the packet try_from returns for a buffer marshals into a buffer of
\* the same length; the count r it returns is at most that length and the
\* first r bytes written are the first r bytes that were parsed.
C19_ParseThenMarshal ==
    call.op = "try_from;marshal" =>
        /\ ret.status = "Ok"
        /\ ret.count_opt[1] <= Len(call.source)
        /\ Take(ret.buffer, ret.count_opt[1]) = Take(call.source, ret.count_opt[1])

\* C19 witness: a 12-byte Get response was parsed and written out again,
\* header, result code and the eight payload bytes.
C19_Witness ==
    /\ call.op = "try_from;marshal"
    /\ call.source[2] = 128
    /\ call.source[3] = 165
    /\ call.source[5] = 1
    /\ ret.count_opt = Some(12)
    /\ ret.buffer = call.source

====
